---------------------------- MODULE Spec2Model ----------------------------
(***************************************************************************)
(* Model of the Hepatitis B chatbot (src/HepBChat_refined.py, with the     *)
(* earlier src/HepBChat.py where the two agree): the rule-based intent     *)
(* classifier, the response composer and the in-memory risk-screen         *)
(* session store with its four HTTP handlers.                              *)
(*                                                                         *)
(* Four specifications share the module:                                   *)
(*   LoadSpec      the import of either program: the dataset file is read  *)
(*                 and the intent configuration is built;                  *)
(*   ClassifySpec  classify_intent_v2 and response_for_intent applied to   *)
(*                 an input drawn from bounded sets;                       *)
(*   Spec      every handler call is one action (calls arrive one after    *)
(*             the other: a request is served once the response to the    *)
(*             previous one has been sent);                                *)
(*   ConcSpec  two requests for the same user_id run in two worker         *)
(*             threads of the server's thread pool (the handlers are plain *)
(*             `def`s, the store has no lock), one attribute read or       *)
(*             write per step.                                             *)
(*                                                                         *)
(* Text is modelled at the level of whitespace-separated pieces drawn from *)
(* a bounded vocabulary; scores are scaled by 10 and confidences by 80 so  *)
(* that 2.0 / 1.0 / 0.8 and the division by 8.0 stay in the integers.      *)
(***************************************************************************)
EXTENDS Integers, Sequences, FiniteSets, TLC

\* ------------------------------------------------------------------------
\* Bounds of the model
\* ------------------------------------------------------------------------

\* number of distinct user_ids sending requests (Spec)
NumUsers == 2

\* number of worker threads serving requests for one user_id (ConcSpec)
NumThreads == 2

Users == 1..NumUsers

Threads == 1..NumThreads

\* ------------------------------------------------------------------------
\* Small helpers
\* ------------------------------------------------------------------------

Min(a, b) == IF a <= b THEN a ELSE b

Range(s) == { s[i] : i \in DOMAIN s }

RECURSIVE Flatten(_)
Flatten(ss) == IF ss = <<>> THEN <<>> ELSE Head(ss) \o Flatten(Tail(ss))

Reverse(s) == [ i \in 1..Len(s) |-> s[Len(s) + 1 - i] ]

\* phrase p occurs in the word sequence w starting at position i
OccursAt(p, w, i) ==
    /\ i >= 1
    /\ i + Len(p) - 1 <= Len(w)
    /\ \A j \in 1..Len(p) : w[i + j - 1] = p[j]

\* ------------------------------------------------------------------------
\* Text utilities: STOPWORDS, normalize, tokenize
\* ------------------------------------------------------------------------

STOPWORDS ==
    { "the", "a", "an", "to", "for", "of", "and", "or", "is", "are", "in", "on",
      "with", "about", "what", "how", "does", "do", "can", "i", "you", "it", "be",
      "get", "from", "when", "if", "my", "your", "this", "that", "b", "hep",
      "hepatitis" }

\* The raw pieces a text is made of (a text is a sequence of pieces separated
\* by whitespace; the empty sequence is the empty or whitespace-only text).
RawPieces ==
    { "Hello", "how", "get", "spread", "Blood", "blood", "vomiting", "after",
      "exposure", "test", "asdkj", "?", "I", "am" }

\* normalize on one piece: lowercase, then every character outside
\* [a-z0-9 space hyphen] becomes a space; the result is the words left.
NormalizePiece(p) ==
    CASE p = "Hello" -> << "hello" >>
      [] p = "Blood" -> << "blood" >>
      [] p = "?"     -> << >>
      [] p = "I"     -> << "i" >>
      [] OTHER       -> << p >>

\* normalize(text): the normalized text as its sequence of words (single
\* spaces between them, no leading or trailing space).
normalize(text) == Flatten([ i \in 1..Len(text) |-> NormalizePiece(text[i]) ])

\* tokenize(text): the words of normalize(text) that are not stopwords.
tokenize(text) == SelectSeq(normalize(text), LAMBDA tok : tok \notin STOPWORDS)

\* ------------------------------------------------------------------------
\* Knowledge: BASE_KNOWLEDGE, the loaded CSV records, INTENT_PATTERNS
\* ------------------------------------------------------------------------

BaseIntents ==
    << "greeting", "transmission", "symptoms", "testing", "vaccination",
       "prevention", "treatment", "window", "lab_markers", "urgent" >>

\* BASE_KNOWLEDGE[intent]: the generic answer text of a base intent
BASE_KNOWLEDGE(intent) == << "generic", intent >>

\* The datasets load_knowledge_csv may have produced (rows already trimmed,
\* grouped by intent in file order).  Entries: question_example is a text.
Entry(q, a, s) == [ question_example |-> q, answer_summary |-> a, source |-> s ]

NoRows == [ i \in {} |-> << >> ]

Datasets ==
    { NoRows,
      [ i \in { "transmission", "myths" } |->
          IF i = "transmission"
          THEN << Entry(<< "how", "spread" >>, "ans_spread", "src_cdc"),
                  Entry(<< "Blood", "test" >>, "ans_blood", "") >>
          ELSE << Entry(<< "asdkj" >>, "", "src_who"),
                  Entry(<< "after" >>, "", "") >> ] }

\* CSV_KNOWLEDGE.get(intent, [])
CsvEntries(csv, intent) == IF intent \in DOMAIN csv THEN csv[intent] ELSE << >>

\* INTENT_PATTERNS[intent], restricted to the alternatives that a text over
\* the vocabulary can match.  A pattern is [first, then]: some phrase of
\* `first` occurs in the normalized text and, when `then` is not empty, some
\* phrase of `then` occurs after it (the regex  \b(..)\b.*\b(..)\b ).
Pat(first, then) == [ first |-> first, then |-> then ]

Never == Pat({}, {})

INTENT_PATTERNS(intent) ==
    CASE intent = "greeting" ->
           << Pat({ << "hello" >> }, {}) >>
      [] intent = "transmission" ->
           << Pat({ << "spread" >>, << "get" >> }, {}),
              Pat({ << "blood" >> }, {}),
              Never >>
      [] intent = "symptoms" ->
           << Never, Pat({ << "vomiting" >> }, {}), Never >>
      [] intent = "testing" ->
           << Pat({ << "test" >> }, {}), Never, Never >>
      [] intent = "vaccination" ->
           << Never, Never, Never >>
      [] intent = "prevention" ->
           << Never, Never >>
      [] intent = "treatment" ->
           << Never, Never, Never, Never >>
      [] intent = "window" ->
           << Never,
              Pat({ << "after" >> }, { << "test" >> }),
              Pat({ << "exposure" >> }, {}),
              Pat({ << "after", "exposure" >> }, {}) >>
      [] intent = "lab_markers" ->
           << Never, Never, Never, Never >>
      [] intent = "urgent" ->
           << Never, Pat({ << "vomiting", "blood" >> }, {}), Never >>
      [] OTHER -> << >>

\* The normalized words a text over RawPieces can contain.
Vocabulary == UNION { Range(NormalizePiece(p)) : p \in RawPieces }

\* re.findall(r"[A-Za-z]{3,}", pat) over the patterns of an intent, lowercased
\* and restricted to the vocabulary (stopwords still included: the filter is
\* applied by build_intent_config).
PatternWords(intent) ==
    CASE intent = "greeting"     -> { "hello" }
      [] intent = "transmission" -> { "spread", "get", "blood" }
      [] intent = "symptoms"     -> { "get" }
      [] intent = "testing"      -> { "test", "blood", "how" }
      [] intent = "vaccination"  -> { "how" }
      [] intent = "prevention"   -> { "how", "get" }
      [] intent = "treatment"    -> { "how", "get" }
      [] intent = "window"       -> { "after", "exposure", "test", "how", "get" }
      [] intent = "lab_markers"  -> { "test", "blood" }
      [] intent = "urgent"       -> { "blood", "exposure" }
      [] OTHER                   -> {}

\* ------------------------------------------------------------------------
\* build_intent_config
\* ------------------------------------------------------------------------

\* the intents of the configuration: BASE_KNOWLEDGE, INTENT_PATTERNS and
\* CSV_KNOWLEDGE keys
ConfigIntents(csv) == Range(BaseIntents) \cup DOMAIN csv

\* The orders in which the configuration may list its intents.  The source
\* iterates a Python set of strings, whose order is fixed for one process
\* and differs between processes; the model takes the declaration order and
\* its reverse, the dataset-only intents last resp. first.
ExtraIntents(csv) ==
    LET extra == DOMAIN csv \ Range(BaseIntents)
    IN  IF extra = {} THEN << >> ELSE << CHOOSE i \in extra : TRUE >>

ConfigOrders(csv) ==
    { BaseIntents \o ExtraIntents(csv), Reverse(BaseIntents \o ExtraIntents(csv)) }

\* cfg["examples"]: the non-empty question_example texts of the intent
ConfigExamples(csv, intent) ==
    LET rows == CsvEntries(csv, intent)
        qs   == [ i \in 1..Len(rows) |-> rows[i].question_example ]
    IN  SelectSeq(qs, LAMBDA q : q # << >>)

\* cfg["keywords"]: tokens of the examples plus the pattern words that are
\* not stopwords
ConfigKeywords(csv, intent) ==
    LET exs == ConfigExamples(csv, intent)
    IN  UNION { Range(tokenize(exs[i])) : i \in 1..Len(exs) }
          \cup (PatternWords(intent) \ STOPWORDS)

\* INTENT_CONFIG[intent]
IntentConfig(csv, intent) ==
    [ intent   |-> intent,
      patterns |-> INTENT_PATTERNS(intent),
      examples |-> ConfigExamples(csv, intent),
      keywords |-> ConfigKeywords(csv, intent) ]

\* build_intent_config(): INTENT_CONFIG as the sequence of its items in
\* iteration order
build_intent_config(csv, order) ==
    [ i \in 1..Len(order) |-> IntentConfig(csv, order[i]) ]

\* ------------------------------------------------------------------------
\* classify_intent_v2
\* ------------------------------------------------------------------------

\* re.search(pattern, text_norm) for one pattern
PatternMatches(pat, words) ==
    \E p \in pat.first : \E i \in 1..Len(words) :
        /\ OccursAt(p, words, i)
        /\ \/ pat.then = {}
           \/ \E q \in pat.then : \E j \in (i + Len(p))..Len(words) :
                 OccursAt(q, words, j)

PatHits(patterns, words) ==
    Cardinality({ k \in 1..Len(patterns) : PatternMatches(patterns[k], words) })

\* the loop over the examples: the largest token overlap, 0 without examples
RECURSIVE ExOverlap(_, _, _)
ExOverlap(examples, token_set, best) ==
    IF examples = << >> THEN best
    ELSE LET overlap == Cardinality(Range(tokenize(Head(examples))) \cap token_set)
         IN  ExOverlap(Tail(examples), token_set,
                       IF overlap > best THEN overlap ELSE best)

\* score of one intent, times 10
IntentScore(cfg, text_norm, token_set) ==
    20 * PatHits(cfg.patterns, text_norm)
      + 10 * Cardinality(token_set \cap cfg.keywords)
      + 8 * ExOverlap(cfg.examples, token_set, 0)

\* faulty variant of ScanIntents: an equal score also replaces the running best
RECURSIVE ScanIntents_LastWins(_, _, _, _)
ScanIntents_LastWins(config, text_norm, token_set, best) ==
    IF config = << >> THEN best
    ELSE LET score == IntentScore(Head(config), text_norm, token_set)
         IN  ScanIntents_LastWins(Tail(config), text_norm, token_set,
                                  IF score >= best.score
                                  THEN [ intent |-> Head(config).intent, score |-> score ]
                                  ELSE best)

\* the scan over INTENT_CONFIG in its iteration order: a strictly greater
\* score replaces the running best
RECURSIVE ScanIntents(_, _, _, _)
ScanIntents(config, text_norm, token_set, best) ==
    IF config = << >> THEN best
    ELSE LET score == IntentScore(Head(config), text_norm, token_set)
         IN  ScanIntents(Tail(config), text_norm, token_set,
                         IF score > best.score
                         THEN [ intent |-> Head(config).intent, score |-> score ]
                         ELSE best)

\* faulty variant of classify_intent_v2: without a signal the first intent of
\* the configuration is returned
classify_intent_v2_FirstIntent(config, text) ==
    IF text = << >>
    THEN [ intent |-> "greeting", confidence |-> 0 ]
    ELSE LET best == ScanIntents(config, normalize(text), Range(tokenize(text)),
                                 [ intent |-> config[1].intent, score |-> 0 ])
         IN  [ intent |-> best.intent, confidence |-> Min(80, best.score) ]

\* faulty variant of classify_intent_v2: the confidence is not capped at 1.0
classify_intent_v2_Uncapped(config, text) ==
    IF text = << >>
    THEN [ intent |-> "greeting", confidence |-> 0 ]
    ELSE LET best == ScanIntents(config, normalize(text), Range(tokenize(text)),
                                 [ intent |-> "greeting", score |-> 0 ])
         IN  IF best.score <= 0
             THEN [ intent |-> "greeting", confidence |-> 0 ]
             ELSE [ intent |-> best.intent, confidence |-> best.score ]

\* classify_intent_v2(text): intent and confidence (in 1/80)
classify_intent_v2(config, text) ==
    IF text = << >>
    THEN [ intent |-> "greeting", confidence |-> 0 ]
    ELSE LET best == ScanIntents(config, normalize(text), Range(tokenize(text)),
                                 [ intent |-> "greeting", score |-> 0 ])
         IN  IF best.score <= 0
             THEN [ intent |-> "greeting", confidence |-> 0 ]
             ELSE [ intent |-> best.intent, confidence |-> Min(80, best.score) ]

\* ------------------------------------------------------------------------
\* pick_csv_answer, response_for_intent
\* ------------------------------------------------------------------------

\* the loop of pick_csv_answer: first entry of largest overlap (starts at -1)
RECURSIVE PickEntry(_, _, _, _)
PickEntry(entries, user_tokens, best_entry, best_score) ==
    IF entries = << >> THEN best_entry
    ELSE LET overlap ==
               Cardinality(user_tokens \cap Range(tokenize(Head(entries).question_example)))
         IN  IF overlap > best_score
             THEN PickEntry(Tail(entries), user_tokens, Head(entries), overlap)
             ELSE PickEntry(Tail(entries), user_tokens, best_entry, best_score)

\* pick_csv_answer: the rendered entry, << >> standing for None
pick_csv_answer(csv, intent, user_text) ==
    LET entries == CsvEntries(csv, intent)
    IN  IF entries = << >> THEN << >>
        ELSE LET e == PickEntry(entries, Range(tokenize(user_text)), Head(entries), -1)
             IN  IF e.answer_summary # "" /\ e.source # ""
                 THEN << e.answer_summary, " (Source: ", e.source, ")" >>
                 ELSE IF e.answer_summary # "" THEN << e.answer_summary >> ELSE << >>

Disclaimer == "disclaimer"

\* faulty variant of response_for_intent: no generic answer behind the entry
response_for_intent_NoFallback(csv, intent, user_text) ==
    pick_csv_answer(csv, intent, user_text) \o << Disclaimer >>

\* response_for_intent: the reply as the sequence of its parts
response_for_intent(csv, intent, user_text) ==
    LET csv_answer == pick_csv_answer(csv, intent, user_text)
        base == IF csv_answer # << >> THEN csv_answer
                ELSE IF intent \in Range(BaseIntents) THEN BASE_KNOWLEDGE(intent)
                ELSE BASE_KNOWLEDGE("greeting")
    IN  base \o << Disclaimer >>

\* ------------------------------------------------------------------------
\* Risk screen: RISK_QUESTIONS, SessionState, the outcome of each handler
\* ------------------------------------------------------------------------

RISK_QUESTIONS ==
    << "q_needles", "q_unprotected_sex", "q_region", "q_liver", "q_pregnancy" >>

\* len(RISK_QUESTIONS)
N == Len(RISK_QUESTIONS)

Choices == { "yes", "no", "skip" }

\* SESSIONS.get(user_id) when the key is absent
None == [ state |-> "none" ]

\* SessionState(user_id=..., state=..., risk_index=..., risk_score=...)
SessionState(user_id, state, risk_index, risk_score) ==
    [ user_id |-> user_id, state |-> state,
      risk_index |-> risk_index, risk_score |-> risk_score ]

\* SessionState(user_id=user_id): the defaults of the model class
FreshIdle(user_id) == SessionState(user_id, "idle", 0, 0)

\* faulty variant of QuestionAt: the index is taken as 1-based
QuestionAt_OneBased(i) == IF i \in 1..N THEN RISK_QUESTIONS[i] ELSE "IndexError"

\* RISK_QUESTIONS[i] with Python's 0-based index; out of range raises
QuestionAt(i) == IF i \in 0..(N - 1) THEN RISK_QUESTIONS[i + 1] ELSE "IndexError"

\* faulty variant of RiskLevel: the thresholds compared with > instead of >=
RiskLevel_StrictThreshold(total) ==
    IF total > 3 THEN "elevated"
    ELSE IF total = 2 THEN "moderate"
    ELSE "low"

\* the level of a finished screen
RiskLevel(total) ==
    IF total >= 3 THEN "elevated"
    ELSE IF total = 2 THEN "moderate"
    ELSE "low"

\* faulty variant of NoActiveScreen: only the missing key is rejected
NoActiveScreen_OnlyAbsent(session) == session = None

\* the guard of answer_risk: `not session or session.state != "risk_screen"`
NoActiveScreen(session) == session = None \/ session.state # "risk_screen"

\* faulty variant of StartOutcome: the record is built with the default state
StartOutcome_DefaultState(user_id) ==
    LET state == SessionState(user_id, "idle", 0, 0)
    IN  [ session |-> state,
          result  |-> [ op |-> "start", user |-> user_id, status |-> "ok",
                        session |-> state ] ]

\* start_risk_screen run alone: the stored record and the response
StartOutcome(user_id) ==
    LET state == SessionState(user_id, "risk_screen", 0, 0)
    IN  [ session |-> state,
          result  |-> [ op |-> "start", user |-> user_id, status |-> "ok",
                        session |-> state ] ]

\* faulty variant of ApplyAnswer: "skip" scores like "yes"
ApplyAnswer_SkipScores(session, answer) ==
    [ session EXCEPT !.risk_score = IF answer # "no" THEN @ + 1 ELSE @,
                     !.risk_index = @ + 1 ]

\* faulty variant of ApplyAnswer: a "yes" is weighted 2
ApplyAnswer_YesWeighsTwo(session, answer) ==
    [ session EXCEPT !.risk_score = IF answer = "yes" THEN @ + 2 ELSE @,
                     !.risk_index = @ + 1 ]

\* answer_risk: `if req.answer == "yes": session.risk_score += 1` and
\* `session.risk_index += 1`, on the stored object
ApplyAnswer(session, answer) ==
    [ session EXCEPT !.risk_score = IF answer = "yes" THEN @ + 1 ELSE @,
                     !.risk_index = @ + 1 ]

\* faulty variant of IsLastQuestion: the screen ends one question late
IsLastQuestion_OneLate(session) == ~(session.risk_index <= N)

\* answer_risk: the else branch of `if session.risk_index < len(RISK_QUESTIONS)`
IsLastQuestion(session) == ~(session.risk_index < N)

\* answer_risk run alone on the stored record `session`
AnswerOutcome(session, user_id, answer) ==
    IF NoActiveScreen(session)
    THEN [ session |-> session,
           result  |-> [ op |-> "answer", user |-> user_id,
                         status |-> "NoActiveScreen" ] ]
    ELSE LET moved == ApplyAnswer(session, answer)
         IN  IF ~IsLastQuestion(moved)
             THEN [ session |-> moved,
                    result  |-> [ op |-> "answer", user |-> user_id,
                                  status |-> "next",
                                  question_index |-> moved.risk_index,
                                  question |-> QuestionAt(moved.risk_index),
                                  progress |-> << moved.risk_index, N >>,
                                  session |-> moved ] ]
             ELSE [ session |-> FreshIdle(user_id),
                    result  |-> [ op |-> "answer", user |-> user_id,
                                  status |-> "done",
                                  score |-> moved.risk_score,
                                  level |-> RiskLevel(moved.risk_score),
                                  guidance |-> "RISK_TIPS",
                                  disclaimer |-> "Educational only. Not medical advice." ] ]

\* faulty variant of StopOutcome: the key is dropped instead of reset
StopOutcome_DropsKey(user_id) ==
    [ session |-> None,
      result  |-> [ op |-> "stop", user |-> user_id, status |-> "stopped" ] ]

\* stop_risk run alone
StopOutcome(user_id) ==
    [ session |-> FreshIdle(user_id),
      result  |-> [ op |-> "stop", user |-> user_id, status |-> "stopped" ] ]

RedirectReply == << "You have a risk screen in progress." >>

RiskInvite == "risk screen invitation"

InviteIntents == { "transmission", "prevention", "testing" }

\* faulty variant of ChatOutcome: any existing record redirects, whatever its state
ChatOutcome_AnyRecordRedirects(session, config, csv, user_id, message) ==
    LET c == classify_intent_v2(config, message)
    IN  IF session # None
        THEN [ op |-> "chat", user |-> user_id, reply |-> RedirectReply,
               intent |-> "risk_screen", confidence |-> c.confidence ]
        ELSE LET text == response_for_intent(csv, c.intent, message)
             IN  [ op |-> "chat", user |-> user_id,
                   reply |-> IF c.intent \in InviteIntents
                             THEN text \o << RiskInvite >> ELSE text,
                   intent |-> c.intent, confidence |-> c.confidence ]

\* chat run alone: the response (the store is only read)
ChatOutcome(session, config, csv, user_id, message) ==
    LET c == classify_intent_v2(config, message)
    IN  IF session # None /\ session.state = "risk_screen"
        THEN [ op |-> "chat", user |-> user_id, reply |-> RedirectReply,
               intent |-> "risk_screen", confidence |-> c.confidence ]
        ELSE LET text == response_for_intent(csv, c.intent, message)
             IN  [ op |-> "chat", user |-> user_id,
                   reply |-> IF c.intent \in InviteIntents
                             THEN text \o << RiskInvite >> ELSE text,
                   intent |-> c.intent, confidence |-> c.confidence ]

\* ------------------------------------------------------------------------
\* Knowledge ingestion at start-up: load_knowledge_csv of both programs
\* ------------------------------------------------------------------------

\* the two programs of the repository
Programs == { "HepBChat", "HepBChat_refined" }

\* data/hepB_knowledge.csv: Absent, or a file with rows after the header line
Absent == [ exists |-> FALSE, rows |-> << >> ]

File(rows) == [ exists |-> TRUE, rows |-> rows ]

RawRow(i, q, a, s) ==
    [ intent |-> i, question_example |-> q, answer_summary |-> a, source |-> s ]

\* the rows a dataset file is made of (fields as written in the file)
RowKinds ==
    { RawRow("Transmission ", << "how", "spread" >>, " ans_spread ", "src_cdc"),
      RawRow("  ", << "test" >>, "ans_lost", "src_lost"),
      RawRow("myths", << "asdkj" >>, "", "src_who"),
      RawRow("transmission", << "Blood", "test" >>, "ans_blood", " "),
      RawRow("myths", << "after" >>, " ", "") }

\* the file behind the dataset with records
FullFile ==
    << RawRow("Transmission ", << "how", "spread" >>, " ans_spread ", "src_cdc"),
       RawRow("  ", << "test" >>, "ans_lost", "src_lost"),
       RawRow("transmission", << "Blood", "test" >>, "ans_blood", " "),
       RawRow("myths", << "asdkj" >>, "", "src_who"),
       RawRow("myths", << "after" >>, " ", "") >>

\* the files of a running service: a header-only file and FullFile
ServedFiles == { File(<< >>), File(FullFile) }

\* largest number of rows of the other files
MaxRows == 2

Files ==
    { Absent } \cup ServedFiles
      \cup { File(rows) : rows \in UNION { [ 1..n -> RowKinds ] : n \in 0..MaxRows } }

\* str.strip() and str.lower() on the field values of RowKinds (a
\* question_example is kept as its pieces, which carry no outer whitespace)
Strip(s) ==
    CASE s = "Transmission " -> "Transmission"
      [] s = " ans_spread "  -> "ans_spread"
      [] s = "  "            -> ""
      [] s = " "             -> ""
      [] OTHER               -> s

Lower(s) == IF s = "Transmission" THEN "transmission" ELSE s

\* buckets[intent].append(entry)
BucketAppend(buckets, intent, entry) ==
    [ i \in DOMAIN buckets \cup { intent } |->
        IF i = intent THEN CsvEntries(buckets, i) \o << entry >> ELSE buckets[i] ]

\* the loop over the rows in HepBChat_refined.py
RECURSIVE LoadRows(_, _)
LoadRows(rows, buckets) ==
    IF rows = << >> THEN buckets
    ELSE LET row    == Head(rows)
             intent == Lower(Strip(row.intent))
             entry  == Entry(row.question_example, Strip(row.answer_summary),
                             Strip(row.source))
         IN  IF intent = "" THEN LoadRows(Tail(rows), buckets)
             ELSE LoadRows(Tail(rows), BucketAppend(buckets, intent, entry))

\* load_knowledge_csv of HepBChat_refined.py: csv_path.open() raises when
\* the file does not exist
load_knowledge_csv(file) ==
    IF file = Absent
    THEN [ raised |-> "FileNotFoundError" ]
    ELSE [ raised |-> "none", value |-> LoadRows(file.rows, NoRows) ]

\* the loop over the rows in HepBChat.py: kb[intent] = answer (Source: source)
RECURSIVE KbRows(_, _)
KbRows(rows, kb) ==
    IF rows = << >> THEN kb
    ELSE LET row    == Head(rows)
             intent == Lower(Strip(row.intent))
             answer == << row.answer_summary, " (Source: ", row.source, ")" >>
         IN  KbRows(Tail(rows),
                    [ i \in DOMAIN kb \cup { intent } |->
                        IF i = intent THEN answer ELSE kb[i] ])

\* load_knowledge_csv of HepBChat.py: an empty dict when the file is missing
HepBChat_load_knowledge_csv(file) ==
    IF file = Absent THEN NoRows ELSE KbRows(file.rows, NoRows)

\* the statically configured generic answers (BASE_KNOWLEDGE, KNOWLEDGE_BASE)
GenericTable == [ i \in Range(BaseIntents) |-> BASE_KNOWLEDGE(i) ]

\* KNOWLEDGE_BASE.update(kb)
DictUpdate(table, kb) ==
    [ i \in DOMAIN table \cup DOMAIN kb |->
        IF i \in DOMAIN kb THEN kb[i] ELSE table[i] ]

\* ------------------------------------------------------------------------
\* State
\* ------------------------------------------------------------------------

VARIABLES
    SESSIONS,        \* Spec: user_id -> stored SessionState, or None
    CSV_KNOWLEDGE,   \* the loaded dataset
    INTENT_CONFIG,   \* the configuration built at start-up, in iteration order
    call,            \* Spec: the request just served
    response,        \* Spec: what that request returned
    answered,        \* Spec: per user, answers accepted since the last start
    yes_answers,     \* Spec: per user, how many of them were "yes"
    phase,           \* Spec: per user, the last start / completion / stop
    heap,            \* ConcSpec: the SessionState objects, by reference
    session_ref,     \* ConcSpec: SESSIONS[user_id] as a reference (0: absent)
    request,         \* ConcSpec: per thread, the request it serves
    pc,              \* ConcSpec: per thread, the statement it is at
    local,           \* ConcSpec: per thread, its local variables
    result,          \* ConcSpec: per thread, what the request returned
    initial,         \* ConcSpec: the stored record before the two requests
    program,         \* which program of the repository is running
    dataset_file,    \* data/hepB_knowledge.csv as found at start-up
    startup,         \* how far the import of the module has come
    KNOWLEDGE_BASE,  \* the generic answers of the running program
    input,           \* ClassifySpec: the arguments of the function under test
    output           \* ClassifySpec: what the function last returned

vars ==
    << SESSIONS, CSV_KNOWLEDGE, INTENT_CONFIG, call, response, answered, yes_answers,
       phase, heap, session_ref, request, pc, local, result, initial,
       program, dataset_file, startup, KNOWLEDGE_BASE, input, output >>

concVars == << heap, session_ref, request, pc, local, result, initial >>

loadVars == << program, dataset_file, startup, KNOWLEDGE_BASE >>

fnVars == << input, output >>

\* The messages sent to /chat (min_length=1 admits whitespace-only text).
ChatMessages ==
    { << >>, << "how", "spread" >>, << "asdkj", "?" >>,
      << "I", "am", "vomiting", "blood", "after", "exposure" >> }

\* ------------------------------------------------------------------------
\* Spec: one action per handler call
\* ------------------------------------------------------------------------

\* no request is being served
NoCall == [ op |-> "none" ]

NoResponse == [ op |-> "none" ]

\* no function is under test
NoInput == [ fn |-> "none" ]

NoOutput == [ fn |-> "none" ]

FnIdle ==
    /\ input = NoInput
    /\ output = NoOutput

\* HepBChat_refined.py imported with the dataset found in `file`
Started(file) ==
    /\ program = "HepBChat_refined"
    /\ dataset_file = file
    /\ startup = "ready"
    /\ KNOWLEDGE_BASE = GenericTable
    /\ CSV_KNOWLEDGE = load_knowledge_csv(file).value

ConcIdle ==
    /\ heap = << >>
    /\ session_ref = 0
    /\ request = [ t \in Threads |-> [ op |-> "none" ] ]
    /\ pc = [ t \in Threads |-> "idle" ]
    /\ local = [ t \in Threads |-> [ session |-> 0 ] ]
    /\ result = [ t \in Threads |-> [ status |-> "none" ] ]
    /\ initial = None

Init ==
    /\ SESSIONS = [ u \in Users |-> None ]
    /\ \E file \in ServedFiles : Started(file)
    /\ FnIdle
    /\ \E order \in ConfigOrders(CSV_KNOWLEDGE) :
          INTENT_CONFIG = build_intent_config(CSV_KNOWLEDGE, order)
    /\ call = NoCall
    /\ response = NoResponse
    /\ answered = [ u \in Users |-> 0 ]
    /\ yes_answers = [ u \in Users |-> 0 ]
    /\ phase = [ u \in Users |-> "never" ]
    /\ ConcIdle

\* faulty variant of StoreSession: one record shared by all user_ids
StoreSession_Shared(sessions, user_id, session) ==
    [ v \in DOMAIN sessions |-> session ]

\* SESSIONS[user_id] = session
StoreSession(sessions, user_id, session) ==
    [ sessions EXCEPT ![user_id] = session ]

\* POST /risk/start
start_risk_screen(u) ==
    LET o == StartOutcome(u)
    IN  /\ call = NoCall
        /\ call' = [ op |-> "start", user |-> u ]
        /\ SESSIONS' = StoreSession(SESSIONS, u, o.session)
        /\ response' = o.result
        /\ answered' = [ answered EXCEPT ![u] = 0 ]
        /\ yes_answers' = [ yes_answers EXCEPT ![u] = 0 ]
        /\ phase' = [ phase EXCEPT ![u] = "started" ]
        /\ UNCHANGED << CSV_KNOWLEDGE, INTENT_CONFIG, concVars, loadVars, fnVars >>

\* POST /risk/answer
answer_risk(u, a) ==
    LET o == AnswerOutcome(SESSIONS[u], u, a)
    IN  /\ call = NoCall
        /\ call' = [ op |-> "answer", user |-> u, answer |-> a ]
        /\ SESSIONS' = StoreSession(SESSIONS, u, o.session)
        /\ response' = o.result
        /\ IF o.result.status = "NoActiveScreen"
           THEN UNCHANGED << answered, yes_answers, phase >>
           ELSE IF o.result.status = "done"
           THEN /\ answered' = [ answered EXCEPT ![u] = 0 ]
                /\ yes_answers' = [ yes_answers EXCEPT ![u] = 0 ]
                /\ phase' = [ phase EXCEPT ![u] = "completed" ]
           ELSE /\ answered' = [ answered EXCEPT ![u] = @ + 1 ]
                /\ yes_answers' =
                     [ yes_answers EXCEPT ![u] = IF a = "yes" THEN @ + 1 ELSE @ ]
                /\ UNCHANGED phase
        /\ UNCHANGED << CSV_KNOWLEDGE, INTENT_CONFIG, concVars, loadVars, fnVars >>

\* POST /risk/stop
stop_risk(u) ==
    LET o == StopOutcome(u)
    IN  /\ call = NoCall
        /\ call' = [ op |-> "stop", user |-> u ]
        /\ SESSIONS' = StoreSession(SESSIONS, u, o.session)
        /\ response' = o.result
        /\ answered' = [ answered EXCEPT ![u] = 0 ]
        /\ yes_answers' = [ yes_answers EXCEPT ![u] = 0 ]
        /\ phase' = [ phase EXCEPT ![u] = "stopped" ]
        /\ UNCHANGED << CSV_KNOWLEDGE, INTENT_CONFIG, concVars, loadVars, fnVars >>

\* POST /chat
chat(u, m) ==
    /\ call = NoCall
    /\ call' = [ op |-> "chat", user |-> u, message |-> m ]
    /\ response' = ChatOutcome(SESSIONS[u], INTENT_CONFIG, CSV_KNOWLEDGE, u, m)
    /\ UNCHANGED << SESSIONS, answered, yes_answers, phase,
                    CSV_KNOWLEDGE, INTENT_CONFIG, concVars, loadVars, fnVars >>

Start == \E u \in Users : start_risk_screen(u)

Answer == \E u \in Users : \E a \in Choices : answer_risk(u, a)

Stop == \E u \in Users : stop_risk(u)

Chat == \E u \in Users : \E m \in ChatMessages : chat(u, m)

\* the server sends the response; the next request is served after it
Deliver ==
    /\ call # NoCall
    /\ call' = NoCall
    /\ response' = NoResponse
    /\ UNCHANGED << SESSIONS, answered, yes_answers, phase,
                    CSV_KNOWLEDGE, INTENT_CONFIG, concVars, loadVars, fnVars >>

Next == Start \/ Answer \/ Stop \/ Chat \/ Deliver

Spec == Init /\ [][Next]_vars

\* ------------------------------------------------------------------------
\* ConcSpec: requests for one user_id served by worker threads.  A thread
\* serves one request; every step is one read or one write of the shared
\* store or of a shared SessionState object.
\* ------------------------------------------------------------------------

\* the user_id both requests carry
TheUser == 1

\* the records SESSIONS can hold for a user when the requests arrive
StoredRecords ==
    { None, FreshIdle(TheUser) }
      \cup { SessionState(TheUser, "risk_screen", i, s) : i \in 0..(N - 1), s \in 0..(N - 1) }

ReachableRecords ==
    { r \in StoredRecords : r = None \/ r.state = "idle" \/ r.risk_score <= r.risk_index }

Requests ==
    { [ op |-> "start" ], [ op |-> "stop" ] }
      \cup { [ op |-> "answer", answer |-> a ] : a \in Choices }

NoLocals == [ session |-> 0 ]

ConcInit ==
    /\ SESSIONS = [ u \in Users |-> None ]
    /\ Started(File(<< >>))
    /\ FnIdle
    /\ INTENT_CONFIG = build_intent_config(NoRows, BaseIntents)
    /\ call = NoCall
    /\ response = NoResponse
    /\ answered = [ u \in Users |-> 0 ]
    /\ yes_answers = [ u \in Users |-> 0 ]
    /\ phase = [ u \in Users |-> "never" ]
    /\ initial \in ReachableRecords
    /\ heap = IF initial = None THEN << >> ELSE << initial >>
    /\ session_ref = IF initial = None THEN 0 ELSE 1
    /\ request = [ t \in Threads |-> [ op |-> "none" ] ]
    /\ pc = [ t \in Threads |-> "idle" ]
    /\ local = [ t \in Threads |-> NoLocals ]
    /\ result = [ t \in Threads |-> [ status |-> "none" ] ]

frame == << SESSIONS, CSV_KNOWLEDGE, INTENT_CONFIG, call, response, answered,
            yes_answers, phase, initial, loadVars, fnVars >>

Goto(t, label) == pc' = [ pc EXCEPT ![t] = label ]

Return(t, value) ==
    /\ result' = [ result EXCEPT ![t] = value ]
    /\ pc' = [ pc EXCEPT ![t] = "done" ]

\* the thread pool hands a request to a free worker
Receive(t, req) ==
    /\ pc[t] = "idle"
    /\ request' = [ request EXCEPT ![t] = req ]
    /\ Goto(t, req.op)
    /\ UNCHANGED << heap, session_ref, local, result, frame >>

\* start_risk_screen: build the record, SESSIONS[user_id] = state, return it
t_start(t) ==
    /\ pc[t] = "start"
    /\ heap' = Append(heap, SessionState(TheUser, "risk_screen", 0, 0))
    /\ session_ref' = Len(heap) + 1
    /\ Return(t, StartOutcome(TheUser).result)
    /\ UNCHANGED << request, local, frame >>

\* stop_risk: SESSIONS[user_id] = SessionState(user_id=user_id)
t_stop(t) ==
    /\ pc[t] = "stop"
    /\ heap' = Append(heap, FreshIdle(TheUser))
    /\ session_ref' = Len(heap) + 1
    /\ Return(t, StopOutcome(TheUser).result)
    /\ UNCHANGED << request, local, frame >>

\* answer_risk: session = SESSIONS.get(req.user_id)
t_answer_get(t) ==
    /\ pc[t] = "answer"
    /\ local' = [ local EXCEPT ![t] = [ session |-> session_ref ] ]
    /\ Goto(t, "answer_check")
    /\ UNCHANGED << heap, session_ref, request, result, frame >>

\* answer_risk: if not session or session.state != "risk_screen": raise
t_answer_check(t) ==
    /\ pc[t] = "answer_check"
    /\ LET ref == local[t].session
       IN  IF ref = 0 \/ NoActiveScreen(heap[ref])
           THEN Return(t, [ op |-> "answer", user |-> TheUser,
                            status |-> "NoActiveScreen" ])
           ELSE /\ Goto(t, IF request[t].answer = "yes" THEN "score_load"
                           ELSE "index_load")
                /\ UNCHANGED result
    /\ UNCHANGED << heap, session_ref, request, local, frame >>

\* session.risk_score += 1: the read
t_score_load(t) ==
    /\ pc[t] = "score_load"
    /\ local' = [ local EXCEPT ![t] =
                    [ session |-> @.session, tmp |-> heap[@.session].risk_score ] ]
    /\ Goto(t, "score_store")
    /\ UNCHANGED << heap, session_ref, request, result, frame >>

\* session.risk_score += 1: the write
t_score_store(t) ==
    /\ pc[t] = "score_store"
    /\ heap' = [ heap EXCEPT ![local[t].session].risk_score = local[t].tmp + 1 ]
    /\ local' = [ local EXCEPT ![t] = [ session |-> @.session ] ]
    /\ Goto(t, "index_load")
    /\ UNCHANGED << session_ref, request, result, frame >>

\* session.risk_index += 1: the read
t_index_load(t) ==
    /\ pc[t] = "index_load"
    /\ local' = [ local EXCEPT ![t] =
                    [ session |-> @.session, tmp |-> heap[@.session].risk_index ] ]
    /\ Goto(t, "index_store")
    /\ UNCHANGED << heap, session_ref, request, result, frame >>

\* session.risk_index += 1: the write
t_index_store(t) ==
    /\ pc[t] = "index_store"
    /\ heap' = [ heap EXCEPT ![local[t].session].risk_index = local[t].tmp + 1 ]
    /\ local' = [ local EXCEPT ![t] = [ session |-> @.session ] ]
    /\ Goto(t, "branch")
    /\ UNCHANGED << session_ref, request, result, frame >>

\* if session.risk_index < len(RISK_QUESTIONS):
t_branch(t) ==
    /\ pc[t] = "branch"
    /\ Goto(t, IF heap[local[t].session].risk_index < N THEN "next_q" ELSE "total")
    /\ UNCHANGED << heap, session_ref, request, local, result, frame >>

\* next_q = RISK_QUESTIONS[session.risk_index]
t_next_q(t) ==
    /\ pc[t] = "next_q"
    /\ LET q == QuestionAt(heap[local[t].session].risk_index)
       IN  IF q = "IndexError"
           THEN /\ Return(t, [ op |-> "answer", user |-> TheUser,
                               status |-> "IndexError" ])
                /\ UNCHANGED local
           ELSE /\ local' = [ local EXCEPT ![t] =
                                [ session |-> @.session, question |-> q ] ]
                /\ Goto(t, "payload_index")
                /\ UNCHANGED result
    /\ UNCHANGED << heap, session_ref, request, frame >>

\* "question_index": session.risk_index
t_payload_index(t) ==
    /\ pc[t] = "payload_index"
    /\ local' = [ local EXCEPT ![t] =
                    [ session |-> @.session, question |-> @.question,
                      question_index |-> heap[@.session].risk_index ] ]
    /\ Goto(t, "payload_progress")
    /\ UNCHANGED << heap, session_ref, request, result, frame >>

\* "progress": f"{session.risk_index}/{len(RISK_QUESTIONS)}"
t_payload_progress(t) ==
    /\ pc[t] = "payload_progress"
    /\ local' = [ local EXCEPT ![t] =
                    [ session |-> @.session, question |-> @.question,
                      question_index |-> @.question_index,
                      progress |-> << heap[@.session].risk_index, N >> ] ]
    /\ Goto(t, "payload_dump")
    /\ UNCHANGED << heap, session_ref, request, result, frame >>

\* "session": session.model_dump(), and the return of the "next" payload
t_payload_dump(t) ==
    /\ pc[t] = "payload_dump"
    /\ Return(t, [ op |-> "answer", user |-> TheUser, status |-> "next",
                   question_index |-> local[t].question_index,
                   question |-> local[t].question,
                   progress |-> local[t].progress,
                   session |-> heap[local[t].session] ])
    /\ UNCHANGED << heap, session_ref, request, local, frame >>

\* total = session.risk_score
t_total(t) ==
    /\ pc[t] = "total"
    /\ local' = [ local EXCEPT ![t] =
                    [ session |-> @.session, total |-> heap[@.session].risk_score ] ]
    /\ Goto(t, "reset")
    /\ UNCHANGED << heap, session_ref, request, result, frame >>

\* SESSIONS[req.user_id] = SessionState(user_id=req.user_id); return "done"
t_reset(t) ==
    /\ pc[t] = "reset"
    /\ heap' = Append(heap, FreshIdle(TheUser))
    /\ session_ref' = Len(heap) + 1
    /\ Return(t, [ op |-> "answer", user |-> TheUser, status |-> "done",
                   score |-> local[t].total,
                   level |-> RiskLevel(local[t].total),
                   guidance |-> "RISK_TIPS",
                   disclaimer |-> "Educational only. Not medical advice." ])
    /\ UNCHANGED << request, local, frame >>

Arrive == \E t \in Threads : \E req \in Requests : Receive(t, req)

StartStep == \E t \in Threads : t_start(t)

StopStep == \E t \in Threads : t_stop(t)

AnswerGuard == \E t \in Threads : t_answer_get(t) \/ t_answer_check(t)

AnswerScore == \E t \in Threads : t_score_load(t) \/ t_score_store(t)

AnswerIndex == \E t \in Threads : t_index_load(t) \/ t_index_store(t)

AnswerBranch == \E t \in Threads : t_branch(t)

AnswerNext ==
    \E t \in Threads :
        t_next_q(t) \/ t_payload_index(t) \/ t_payload_progress(t) \/ t_payload_dump(t)

AnswerDone == \E t \in Threads : t_total(t) \/ t_reset(t)

ConcNext ==
    \/ Arrive
    \/ StartStep
    \/ StopStep
    \/ AnswerGuard
    \/ AnswerScore
    \/ AnswerIndex
    \/ AnswerBranch
    \/ AnswerNext
    \/ AnswerDone

ConcSpec == ConcInit /\ [][ConcNext]_vars

\* SESSIONS.get(user_id) in ConcSpec
StoredNow == IF session_ref = 0 THEN None ELSE heap[session_ref]

AllReturned == \A t \in Threads : pc[t] = "done"

\* ------------------------------------------------------------------------
\* LoadSpec: the import of either program, from the dataset file to the
\* built configuration
\* ------------------------------------------------------------------------

\* no request has been served
NoRequests ==
    /\ SESSIONS = [ u \in Users |-> None ]
    /\ call = NoCall
    /\ response = NoResponse
    /\ answered = [ u \in Users |-> 0 ]
    /\ yes_answers = [ u \in Users |-> 0 ]
    /\ phase = [ u \in Users |-> "never" ]
    /\ ConcIdle

servedVars ==
    << SESSIONS, call, response, answered, yes_answers, phase, concVars >>

LoadInit ==
    /\ program \in Programs
    /\ dataset_file \in Files
    /\ startup = "pending"
    /\ KNOWLEDGE_BASE = GenericTable
    /\ CSV_KNOWLEDGE = NoRows
    /\ INTENT_CONFIG = << >>
    /\ FnIdle
    /\ NoRequests

\* CSV_KNOWLEDGE = load_knowledge_csv()   (HepBChat_refined.py)
\* KNOWLEDGE_BASE.update(load_knowledge_csv())   (HepBChat.py)
LoadDataset ==
    /\ startup = "pending"
    /\ IF program = "HepBChat_refined"
       THEN /\ LET r == load_knowledge_csv(dataset_file)
                IN  IF r.raised # "none"
                    THEN /\ startup' = "failed"
                         /\ UNCHANGED CSV_KNOWLEDGE
                    ELSE /\ startup' = "loaded"
                         /\ CSV_KNOWLEDGE' = r.value
            /\ UNCHANGED KNOWLEDGE_BASE
       ELSE /\ KNOWLEDGE_BASE' =
                 DictUpdate(KNOWLEDGE_BASE, HepBChat_load_knowledge_csv(dataset_file))
            /\ startup' = "ready"
            /\ UNCHANGED CSV_KNOWLEDGE
    /\ UNCHANGED << program, dataset_file, INTENT_CONFIG, fnVars, servedVars >>

\* INTENT_CONFIG = build_intent_config()
BuildConfig ==
    /\ program = "HepBChat_refined"
    /\ startup = "loaded"
    /\ \E order \in ConfigOrders(CSV_KNOWLEDGE) :
          INTENT_CONFIG' = build_intent_config(CSV_KNOWLEDGE, order)
    /\ startup' = "ready"
    /\ UNCHANGED << program, dataset_file, KNOWLEDGE_BASE, CSV_KNOWLEDGE,
                    fnVars, servedVars >>

LoadNext == LoadDataset \/ BuildConfig

LoadSpec == LoadInit /\ [][LoadNext]_vars

\* ------------------------------------------------------------------------
\* ClassifySpec: classify_intent_v2 and response_for_intent applied to an
\* input, in a started HepBChat_refined.py
\* ------------------------------------------------------------------------

\* largest number of pieces of a text under test
MaxWords == 2

\* a text whose best score exceeds 8.0 once the dataset is loaded
LongTexts == { << "how", "spread", "Blood", "test" >> }

Texts ==
    ChatMessages \cup LongTexts
      \cup UNION { [ 1..n -> RawPieces ] : n \in 0..MaxWords }

\* base intents, the dataset-only intent and an intent nothing declares
IntentStrings == Range(BaseIntents) \cup { "myths", "gibberish" }

Inputs ==
    { [ fn |-> "classify", text |-> t ] : t \in Texts }
      \cup { [ fn |-> "compose", intent |-> i, text |-> t ] :
                i \in IntentStrings, t \in Texts }

ClassifyInit ==
    /\ \E file \in ServedFiles : Started(file)
    /\ \E order \in ConfigOrders(CSV_KNOWLEDGE) :
          INTENT_CONFIG = build_intent_config(CSV_KNOWLEDGE, order)
    /\ input \in Inputs
    /\ output = NoOutput
    /\ NoRequests

\* classify_intent_v2(text)
Classify ==
    /\ input.fn = "classify"
    /\ output' = [ fn |-> "classify",
                   result |-> classify_intent_v2(INTENT_CONFIG, input.text) ]
    /\ UNCHANGED << input, CSV_KNOWLEDGE, INTENT_CONFIG, loadVars, servedVars >>

\* response_for_intent(intent, user_text)
Compose ==
    /\ input.fn = "compose"
    /\ output' = [ fn |-> "compose",
                   reply |-> response_for_intent(CSV_KNOWLEDGE, input.intent,
                                                 input.text) ]
    /\ UNCHANGED << input, CSV_KNOWLEDGE, INTENT_CONFIG, loadVars, servedVars >>

\* the process is started again: the configuration is built anew from the
\* same content, in the set order of the new process
Rebuild ==
    /\ \E order \in ConfigOrders(CSV_KNOWLEDGE) :
          INTENT_CONFIG' = build_intent_config(CSV_KNOWLEDGE, order)
    /\ UNCHANGED << input, output, CSV_KNOWLEDGE, loadVars, servedVars >>

ClassifyNext == Classify \/ Compose \/ Rebuild

ClassifySpec == ClassifyInit /\ [][ClassifyNext]_vars

\* ------------------------------------------------------------------------
\* Properties
\* ------------------------------------------------------------------------

InRiskScreen(session) == session # None /\ session.state = "risk_screen"

\* C1 -- Session progression: while a user's last start has been followed
\* only by k accepted answers (k < 5), the stored record is in RiskScreen
\* with risk_index = k and risk_score = the number of "yes" among them.
C1_SessionProgression ==
    \A u \in Users :
        phase[u] = "started" =>
            /\ answered[u] < N
            /\ SESSIONS[u] =
                 SessionState(u, "risk_screen", answered[u], yes_answers[u])

C1_Witness ==
    \E u \in Users :
        /\ phase[u] = "started"
        /\ answered[u] = 4
        /\ yes_answers[u] = 2
        /\ SESSIONS[u].risk_score = 2

\* C2 -- Completion law: the 5th answer since the last start returns "done"
\* and leaves a fresh Idle record in the same call; an answer after
\* completion (no start in between) is rejected with NoActiveScreen.
C2_CompletionLaw ==
    [][ \A u \in Users :
          (call'.op = "answer" /\ call'.user = u) =>
            /\ (phase[u] = "started" /\ answered[u] = N - 1) =>
                  /\ response'.status = "done"
                  /\ SESSIONS'[u] = FreshIdle(u)
            /\ (phase[u] = "completed") =>
                  /\ response'.status = "NoActiveScreen"
                  /\ SESSIONS'[u] = FreshIdle(u) ]_vars

C2_Witness ==
    \E u \in Users :
        /\ phase[u] = "completed"
        /\ response.op = "answer"
        /\ response.user = u
        /\ response.status = "NoActiveScreen"
        /\ SESSIONS[u] = FreshIdle(u)

\* C3 -- Two concurrent session operations on the same user_id are
\* serialized: once both have returned, the stored record and both results
\* are those of running the requests one after the other in some order.
Outcome(req, session) ==
    CASE req.op = "start"  -> StartOutcome(TheUser)
      [] req.op = "stop"   -> StopOutcome(TheUser)
      [] req.op = "answer" -> AnswerOutcome(session, TheUser, req.answer)

RECURSIVE SerialRunMatches(_, _)
SerialRunMatches(order, session) ==
    IF order = << >> THEN StoredNow = session
    ELSE LET o == Outcome(request[Head(order)], session)
         IN  /\ o.result = result[Head(order)]
             /\ SerialRunMatches(Tail(order), o.session)

ThreadOrders ==
    { o \in [ 1..NumThreads -> Threads ] :
        \A i, j \in 1..NumThreads : i # j => o[i] # o[j] }

C3_Serialized ==
    AllReturned => \E o \in ThreadOrders : SerialRunMatches(o, initial)

\* C4 -- Every stored session record satisfies
\* 0 <= risk_score <= risk_index <= N.
C4_ScoreWithinIndex ==
    \A u \in Users :
        SESSIONS[u] # None =>
            /\ 0 <= SESSIONS[u].risk_score
            /\ SESSIONS[u].risk_score <= SESSIONS[u].risk_index
            /\ SESSIONS[u].risk_index <= N

C4_Witness ==
    \E u \in Users :
        /\ SESSIONS[u] # None
        /\ SESSIONS[u].risk_index = N - 1
        /\ SESSIONS[u].risk_score = N - 1
        /\ response.op = "chat"

\* C5 -- answer for a user whose record is absent or Idle is rejected with
\* NoActiveScreen and leaves the whole registry unchanged.
C5_RejectedAnswer ==
    [][ \A u \in Users :
          (/\ call'.op = "answer"
           /\ call'.user = u
           /\ (SESSIONS[u] = None \/ SESSIONS[u].state = "idle")) =>
            /\ response'.status = "NoActiveScreen"
            /\ SESSIONS' = SESSIONS ]_vars

C5_Witness ==
    \E u, v \in Users :
        /\ response.op = "answer"
        /\ response.user = u
        /\ response.status = "NoActiveScreen"
        /\ SESSIONS[u] # None
        /\ SESSIONS[u].state = "idle"
        /\ SESSIONS[v] = None

\* C6 -- Threshold law: the "done" payload reports the number of "yes" among
\* the 5 answers, and the level follows from it alone: 0 or 1 low, 2
\* moderate, 3 or more elevated.
C6_ThresholdLaw ==
    [][ \A u \in Users :
          (/\ call'.op = "answer"
           /\ call'.user = u
           /\ phase[u] = "started"
           /\ answered[u] = N - 1) =>
            LET total == yes_answers[u] + (IF call'.answer = "yes" THEN 1 ELSE 0)
            IN  /\ response'.status = "done"
                /\ response'.score = total
                /\ total \in {0, 1} => response'.level = "low"
                /\ total = 2 => response'.level = "moderate"
                /\ total >= 3 => response'.level = "elevated" ]_vars

C6_Witness ==
    /\ response.op = "answer"
    /\ response.status = "done"
    /\ response.score = 3
    /\ response.level = "elevated"

\* C7 -- Idempotent stop: stop returns from every prior state, leaves the
\* user's record Idle with index 0 and score 0, and a stop that follows a
\* stop leaves the registry as it was.
C7_IdempotentStop ==
    [][ \A u \in Users :
          (call'.op = "stop" /\ call'.user = u) =>
            /\ response'.status = "stopped"
            /\ SESSIONS'[u] = SessionState(u, "idle", 0, 0)
            /\ phase[u] = "stopped" => SESSIONS' = SESSIONS ]_vars

C7_Witness ==
    \E u \in Users :
        /\ phase[u] = "stopped"
        /\ response.op = "stop"
        /\ response.user = u
        /\ SESSIONS[u] = SessionState(u, "idle", 0, 0)

\* C8 -- start is unconditional: from any prior state it leaves the record
\* in RiskScreen with index 0 and score 0 and returns that snapshot.
C8_StartUnconditional ==
    [][ \A u \in Users :
          (call'.op = "start" /\ call'.user = u) =>
            /\ SESSIONS'[u] = SessionState(u, "risk_screen", 0, 0)
            /\ response'.status = "ok"
            /\ response'.session = SESSIONS'[u] ]_vars

C8_Witness ==
    \E u \in Users :
        /\ response.op = "start"
        /\ response.user = u
        /\ response.session = SessionState(u, "risk_screen", 0, 0)
        /\ SESSIONS[u] = response.session

\* C9 -- Under any interleaving of start, answer and stop on one user_id a
\* call returns a result or fails with NoActiveScreen: answer never reads
\* the question list at an index >= N.
C9_OnlyNoActiveScreen ==
    \A t \in Threads : result[t].status # "IndexError"

\* C10 -- chat: a user in RiskScreen gets the fixed redirect (intent
\* "risk_screen"); any other user gets the answer composed for the classified
\* intent, followed by the invitation when the intent calls for it; the
\* session registry is left unchanged.
C10_ChatRoutes ==
    [][ \A u \in Users :
          (call'.op = "chat" /\ call'.user = u) =>
            /\ SESSIONS' = SESSIONS
            /\ IF InRiskScreen(SESSIONS[u])
               THEN /\ response'.reply = RedirectReply
                    /\ response'.intent = "risk_screen"
               ELSE LET m == call'.message
                        c == classify_intent_v2(INTENT_CONFIG, m)
                        composed == response_for_intent(CSV_KNOWLEDGE, c.intent, m)
                    IN  /\ response'.intent = c.intent
                        /\ response'.reply =
                             IF c.intent \in InviteIntents
                             THEN composed \o << RiskInvite >> ELSE composed ]_vars

C10_Witness ==
    \E u, v \in Users :
        /\ response.op = "chat"
        /\ response.user = u
        /\ response.intent = "risk_screen"
        /\ InRiskScreen(SESSIONS[u])
        /\ SESSIONS[u].risk_index = 2
        /\ SESSIONS[v] = None

\* C11 -- Session lifecycle, as stated: a record is absent until the first
\* start for that user (no other operation creates it) and is never deleted
\* once created; it is only replaced by a fresh Idle record on stop or
\* completion or by a fresh RiskScreen record on start.
RecordStep(u) ==
    \/ SESSIONS'[u] = SESSIONS[u]
    \/ /\ call'.op = "start"
       /\ call'.user = u
       /\ SESSIONS'[u] = SessionState(u, "risk_screen", 0, 0)
    \/ /\ call'.op = "stop"
       /\ call'.user = u
       /\ SESSIONS'[u] = FreshIdle(u)
    \/ /\ call'.op = "answer"
       /\ call'.user = u
       /\ SESSIONS[u] # None
       /\ \/ response'.status = "done" /\ SESSIONS'[u] = FreshIdle(u)
          \/ /\ response'.status = "next"
             /\ SESSIONS'[u].state = "risk_screen"
             /\ SESSIONS'[u].risk_index = SESSIONS[u].risk_index + 1

C11_CreatedOnlyByStart ==
    [][ \A u \in Users :
          /\ (SESSIONS[u] = None /\ SESSIONS'[u] # None) =>
                (call'.op = "start" /\ call'.user = u)
          /\ SESSIONS[u] # None => SESSIONS'[u] # None
          /\ RecordStep(u) ]_vars

\* C11 (amended) -- a record is absent until the first start or stop for
\* that user (answer and chat never create it); once created it is never
\* deleted, only replaced as stated or advanced by an accepted answer.
C11_Lifecycle ==
    [][ \A u \in Users :
          /\ (SESSIONS[u] = None /\ SESSIONS'[u] # None) =>
                (call'.op \in { "start", "stop" } /\ call'.user = u)
          /\ SESSIONS[u] # None => SESSIONS'[u] # None
          /\ RecordStep(u) ]_vars

C11_Witness ==
    \E u, v \in Users :
        /\ u # v
        /\ call.op = "stop"
        /\ call.user = u
        /\ phase[u] = "stopped"
        /\ SESSIONS[u] = FreshIdle(u)
        /\ phase[v] = "completed"
        /\ SESSIONS[v] = FreshIdle(v)

\* C12 -- Determinism: for the same content (patterns, keywords, examples),
\* classify(text) returns the same (intent, confidence) on every call and
\* for every build of the intent configuration from that content.
C12_Deterministic ==
    [][ (output.fn = "classify" /\ output'.fn = "classify") =>
            output'.result = output.result ]_vars

\* the score (times 10) of every intent of the configuration for a text, by
\* position in the iteration order
Scores(config, text) ==
    [ k \in 1..Len(config) |->
        IntentScore(config[k], normalize(text), Range(tokenize(text))) ]

\* the largest of the scores, 0 when there is none
BestScore(scores) ==
    IF DOMAIN scores = {} THEN 0
    ELSE CHOOSE m \in Range(scores) : \A k \in DOMAIN scores : scores[k] <= m

\* C13 -- Selection and tie-break: classify returns the intent with the
\* largest score; among intents with that score the earliest in iteration
\* order wins (only a strictly greater score replaces the running best,
\* which starts at (greeting, 0)); a best score <= 0 gives (greeting, 0.0).
C13_SelectionHolds(res) ==
    LET scores == Scores(INTENT_CONFIG, input.text)
        best   == BestScore(scores)
    IN  IF best <= 0
        THEN res.intent = "greeting" /\ res.confidence = 0
        ELSE \E k \in DOMAIN scores :
                /\ scores[k] = best
                /\ \A j \in 1..(k - 1) : scores[j] < best
                /\ res.intent = INTENT_CONFIG[k].intent

C13_Selection ==
    [][ (output'.fn = "classify" /\ INTENT_CONFIG' = INTENT_CONFIG) =>
            C13_SelectionHolds(output'.result) ]_vars

C13_Witness ==
    /\ output.fn = "classify"
    /\ LET scores == Scores(INTENT_CONFIG, input.text)
       IN  \E k1, k2 \in DOMAIN scores :
              /\ k1 < k2
              /\ scores[k1] > 0
              /\ scores[k1] = BestScore(scores)
              /\ scores[k2] = scores[k1]
              /\ output.result.intent = INTENT_CONFIG[k1].intent

\* the score of one intent as the sum of its three terms (times 10):
\* 2.0 per matching pattern, 1.0 per keyword among the tokens, 0.8 times the
\* largest token overlap with an example (0 without examples)
TermScore(cfg, text) ==
    LET tokens   == Range(tokenize(text))
        overlaps == { Cardinality(Range(tokenize(cfg.examples[i])) \cap tokens) :
                        i \in DOMAIN cfg.examples }
        largest  == IF overlaps = {} THEN 0
                    ELSE CHOOSE m \in overlaps : \A o \in overlaps : o <= m
    IN  20 * Cardinality({ k \in DOMAIN cfg.patterns :
                             PatternMatches(cfg.patterns[k], normalize(text)) })
          + 10 * Cardinality(tokens \cap cfg.keywords)
          + 8 * largest

\* C14 -- Confidence: confidence = min(1.0, best_score / 8.0), best_score
\* being the largest per-intent score 2.0*patterns + 1.0*keywords +
\* 0.8*example overlap; hence 0 <= confidence <= 1 (here in 1/80).
C14_ConfidenceHolds(res) ==
    LET terms == { TermScore(INTENT_CONFIG[k], input.text) : k \in DOMAIN INTENT_CONFIG }
        best  == CHOOSE m \in terms : \A t \in terms : t <= m
    IN  /\ res.confidence = Min(80, best)
        /\ res.confidence >= 0
        /\ res.confidence <= 80

C14_Confidence ==
    [][ (output'.fn = "classify" /\ INTENT_CONFIG' = INTENT_CONFIG) =>
            C14_ConfidenceHolds(output'.result) ]_vars

C14_Witness ==
    /\ output.fn = "classify"
    /\ output.result.confidence = 80
    /\ \E k \in DOMAIN INTENT_CONFIG : TermScore(INTENT_CONFIG[k], input.text) > 80

\* the text matches no pattern, no keyword and no example token of any
\* configured intent
NoSignal(config, text) ==
    \A k \in DOMAIN config :
        /\ \A j \in DOMAIN config[k].patterns :
              ~PatternMatches(config[k].patterns[j], normalize(text))
        /\ Range(tokenize(text)) \cap config[k].keywords = {}
        /\ \A i \in DOMAIN config[k].examples :
              Range(tokenize(text)) \cap Range(tokenize(config[k].examples[i])) = {}

\* C15 -- No-signal law: a text (the empty or whitespace-only text included)
\* with zero pattern matches, zero keywords and zero example overlap for
\* every intent is classified as (greeting, 0.0), whichever intent comes
\* first in iteration order.
C15_NoSignal ==
    [][ ( /\ output'.fn = "classify"
          /\ INTENT_CONFIG' = INTENT_CONFIG
          /\ NoSignal(INTENT_CONFIG, input.text) ) =>
            output'.result = [ intent |-> "greeting", confidence |-> 0 ] ]_vars

C15_Witness ==
    /\ output.fn = "classify"
    /\ input.text # << >>
    /\ NoSignal(INTENT_CONFIG, input.text)
    /\ INTENT_CONFIG[1].intent # "greeting"
    /\ output.result = [ intent |-> "greeting", confidence |-> 0 ]

\* "I am vomiting blood after exposure"
ScenarioB == << "I", "am", "vomiting", "blood", "after", "exposure" >>

\* C16 -- Scenario B: with the configured patterns and the keywords derived
\* from them (no dataset records), classify("I am vomiting blood after
\* exposure") returns intent "urgent".
C16_ScenarioB ==
    ( /\ output.fn = "classify"
      /\ input.text = ScenarioB
      /\ CSV_KNOWLEDGE = NoRows ) => output.result.intent = "urgent"

\* the entry compose chooses: the first one of largest token overlap
ChosenEntry(entries, text) ==
    LET overlap(i) ==
          Cardinality(Range(tokenize(text)) \cap Range(tokenize(entries[i].question_example)))
        k == CHOOSE i \in DOMAIN entries :
                /\ \A j \in DOMAIN entries : overlap(j) <= overlap(i)
                /\ \A j \in 1..(i - 1) : overlap(j) < overlap(i)
    IN  entries[k]

\* the generic answer compose falls back to
GenericAnswer(intent) ==
    IF intent \in Range(BaseIntents) THEN BASE_KNOWLEDGE(intent)
    ELSE BASE_KNOWLEDGE("greeting")

\* C17 -- Entry rendering: the chosen entry renders as "<answer summary>
\* (Source: <source>)" when both fields are non-empty, as just the non-empty
\* field when exactly one is non-empty, and the generic answer is used only
\* when both are empty.
C17_Rendering ==
    ( /\ output.fn = "compose"
      /\ CsvEntries(CSV_KNOWLEDGE, input.intent) # << >> ) =>
        LET e == ChosenEntry(CsvEntries(CSV_KNOWLEDGE, input.intent), input.text)
            rendered ==
              IF e.answer_summary # "" /\ e.source # ""
              THEN << e.answer_summary, " (Source: ", e.source, ")" >>
              ELSE IF e.answer_summary # "" THEN << e.answer_summary >>
              ELSE IF e.source # "" THEN << e.source >>
              ELSE GenericAnswer(input.intent)
        IN  output.reply = rendered \o << Disclaimer >>

\* C18 -- compose is total: for every intent string (base, dataset-only or
\* unrecognized) and every utterance the reply is non-empty and ends with
\* the disclaimer; it is the generic text of the intent when the intent has
\* no records or the chosen entry has nothing to render, and the generic
\* greeting text when the intent has no generic text of its own.
C18_ComposeTotal ==
    output.fn = "compose" =>
        LET entries == CsvEntries(CSV_KNOWLEDGE, input.intent)
            reply   == output.reply
            empty   == \/ entries = << >>
                       \/ LET e == ChosenEntry(entries, input.text)
                          IN  e.answer_summary = "" /\ e.source = ""
        IN  /\ Len(reply) >= 2
            /\ reply[Len(reply)] = Disclaimer
            /\ \A i \in DOMAIN reply : reply[i] # ""
            /\ empty =>
                 reply = ( IF input.intent \in Range(BaseIntents)
                           THEN BASE_KNOWLEDGE(input.intent)
                           ELSE BASE_KNOWLEDGE("greeting") ) \o << Disclaimer >>

C18_Witness ==
    /\ output.fn = "compose"
    /\ input.intent = "myths"
    /\ CsvEntries(CSV_KNOWLEDGE, "myths") # << >>
    /\ ChosenEntry(CsvEntries(CSV_KNOWLEDGE, "myths"), input.text).source = ""
    /\ output.reply = BASE_KNOWLEDGE("greeting") \o << Disclaimer >>

\* C19 -- an absent dataset is not an error: loading yields an empty record
\* mapping, start-up goes on, and the generic answers are in place.
C19_AbsentDatasetLoads ==
    (dataset_file = Absent /\ startup # "pending") =>
        /\ startup \in { "loaded", "ready" }
        /\ CSV_KNOWLEDGE = NoRows
        /\ KNOWLEDGE_BASE = GenericTable

\* C20 -- ingesting any sequence of records leaves the generic answer of
\* every base intent as statically configured, also when a record carries
\* that intent key.
C20_GenericUnchanged ==
    startup # "pending" =>
        \A i \in Range(BaseIntents) : KNOWLEDGE_BASE[i] = BASE_KNOWLEDGE(i)

\* C21 -- whenever answer returns "next", the index i after the increment
\* satisfies 1 <= i <= N-1, the payload carries question_index = i, the
\* question at (0-based) position i of the question list and progress
\* "i/N", and the stored record stays RiskScreen with risk_index = i; an
\* accepted answer returns "next" exactly when i < N and "done" exactly
\* when i = N.
C21_NextPayload ==
    [][ \A u \in Users :
          ( /\ call'.op = "answer"
            /\ call'.user = u
            /\ response'.status # "NoActiveScreen" ) =>
              LET i == SESSIONS[u].risk_index + 1
              IN  /\ response'.status \in { "next", "done" }
                  /\ response'.status = "next" <=> i < N
                  /\ response'.status = "done" <=> i = N
                  /\ response'.status = "next" =>
                       /\ 1 <= i
                       /\ i <= N - 1
                       /\ response'.question_index = i
                       /\ response'.question = RISK_QUESTIONS[i + 1]
                       /\ response'.progress = << i, N >>
                       /\ SESSIONS'[u].state = "risk_screen"
                       /\ SESSIONS'[u].risk_index = i ]_vars

C21_Witness ==
    /\ call.op = "answer"
    /\ call.answer = "yes"
    /\ response.status = "next"
    /\ response.question_index = 1
    /\ response.progress = << 1, N >>
    /\ response.question = "q_unprotected_sex"
    /\ SESSIONS[call.user].risk_index = 1

\* C22 -- Per-user isolation: start, answer (accepted or rejected), stop and
\* chat for user u leave the registry entry of every other user unchanged
\* (presence, state, risk_index, risk_score), however the operations of
\* different users interleave.
C22_Isolation ==
    [][ \A u, v \in Users :
          ( /\ u # v
            /\ call'.op \in { "start", "answer", "stop", "chat" }
            /\ call'.user = u ) => SESSIONS'[v] = SESSIONS[v] ]_vars

C22_Witness ==
    \E u, v \in Users :
        /\ u # v
        /\ call.op = "answer"
        /\ call.user = u
        /\ response.status = "NoActiveScreen"
        /\ SESSIONS[v] # None
        /\ SESSIONS[v].state = "risk_screen"
        /\ SESSIONS[v].risk_index = 3
        /\ SESSIONS[v].risk_score = 2

\* C23 -- between operations (each taken as atomic) every stored record
\* satisfies: Idle implies risk_index = 0 and risk_score = 0, RiskScreen
\* implies 0 <= risk_index <= N-1; no record with risk_index = N stays in
\* the registry.
C23_StoredRecords ==
    \A u \in Users :
        SESSIONS[u] # None =>
            /\ SESSIONS[u].state \in { "idle", "risk_screen" }
            /\ SESSIONS[u].state = "idle" =>
                 (SESSIONS[u].risk_index = 0 /\ SESSIONS[u].risk_score = 0)
            /\ SESSIONS[u].state = "risk_screen" =>
                 (0 <= SESSIONS[u].risk_index /\ SESSIONS[u].risk_index <= N - 1)
            /\ SESSIONS[u].risk_index # N

C23_Witness ==
    \E u, v \in Users :
        /\ u # v
        /\ call = NoCall
        /\ SESSIONS[u] # None
        /\ SESSIONS[u].state = "risk_screen"
        /\ SESSIONS[u].risk_index = N - 1
        /\ SESSIONS[u].risk_score = N - 1
        /\ phase[v] = "completed"
        /\ SESSIONS[v] = FreshIdle(v)

=============================================================================
